---- MODULE Spec2Model ----
(***************************************************************************)
(* Model of src/rust/src/main.rs: one run of main() against a regtest      *)
(* node, statement by statement, with the node's answers as inputs.        *)
(* Amounts are integers in base units; COIN base units make one coin.      *)
(***************************************************************************)
EXTENDS Integers, Sequences, FiniteSets, TLC

\* ------------------------------------------------------------------ bounds
\* base units per coin in the model (10^8 on the real node)
COIN == 100
\* how many times the program is started against the same node
MaxRuns == 2
\* the longest output list the node's decoded transaction carries
MaxOuts == 2

\* ------------------------------------------------------- program constants
\* variants of the funding request, for the sensitivity of C6 and C10: one
\* block short of maturity, and a single block
FUNDING_BLOCKS_short == 101 - 1

FUNDING_BLOCKS_single == 2 - 1

\* main.rs:102  rpc.generate_to_address(101, ..)
FUNDING_BLOCKS == 101

\* main.rs:138  rpc.generate_to_address(1, ..)
CONFIRM_BLOCKS == 1

\* main.rs:242  "coinbase maturity requirement": a reward is spendable once
\* 100 blocks follow its own
COINBASE_MATURITY == 100

\* the block subsidy the node pays per mined block
Reward == 50 * COIN

\* main.rs:116  send_bitcoin(.., 20.0)
Payment == 20 * COIN

\* ------------------------------------------------------------------ values
\* Option::None of an address or a transaction id
NONE == "none"

\* String::new()
EMPTY == ""

\* Option of any other value: <<>> is None (or a local not yet assigned), <<v>> is Some(v)
None == <<>>

Some(v) == <<v>>

MINER == "Miner"

TRADER == "Trader"

WalletNames == {MINER, TRADER}

MINING_ADDR == "bcrt1q_mining_reward"

TRADER_ADDR == "bcrt1q_received"

CHANGE_A == "bcrt1q_change_a"

CHANGE_B == "bcrt1q_change_b"

TXID == "txid64hex"

BAD_TXID == "not-hex"

PREV_COINBASE == "prev_coinbase"

PREV_MISSING == "prev_missing"

PREV_GARBLED == "prev_garbled"

PREV_OTHER == "prev_other"

VARIABLES
    pc,            \* position of main(): the statement about to run, or done/failed/panicked
    run,           \* how many times main() has been started
    wallets,       \* node: wallet name -> absent | unloaded | loaded
    height,        \* node: height of the chain tip (every block pays the Miner wallet)
    debited,       \* node: base units the Miner wallet has paid away (payments and fees)
    pending,       \* node: a sent payment is in the mempool, not yet in a block
    txBlock,       \* node: the block holding the payment of this run, an Option of a height
    ensureLog,     \* history: wallet name -> results of create_or_load_wallet, in order
    funding,       \* history: the funding step of this run
    locals,        \* main()'s local variables, each an Option
    file,          \* out.txt: absent | stale | empty | partial | written
    fileAtStart    \* history: out.txt when this run started

vars == <<pc, run, wallets, height, debited, pending, txBlock, ensureLog, funding,
          locals, file, fileAtStart>>

node == <<wallets, height, debited, pending, txBlock>>

\* ------------------------------------------------------------ pure helpers
Abs(x) == IF x < 0 THEN -x ELSE x

Max(a, b) == IF a > b THEN a ELSE b

\* ---------------------------------------------------------------- the node
\* loadwallet: succeeds only for a wallet that is on disk and not loaded
LoadWalletOk(w, up) == up /\ wallets[w] = "unloaded"

\* createwallet: succeeds only when no wallet of that name exists
CreateWalletOk(w, up) == up /\ wallets[w] = "absent"

\* getbalance of the Miner wallet: matured coinbase rewards less what it paid
MinerBalance(h, d) == Reward * Max(0, h - COINBASE_MATURITY) - d

\* a block hash is modelled by the height of its block
BlockHash(h) == <<"block", h>>

\* getblockheader(hash).height
HeightOf(hash) == hash[2]

\* ------------------------------------------------------------------- main
NoLocals ==
    [ miner_balance |-> None, send_result |-> None, txid_str |-> None,
      transaction |-> None,
      block_hash |-> None, block_height |-> None, decoded_tx |-> None,
      miner_input |-> None, trader_output |-> None, miner_change |-> None,
      output_data |-> None ]

NoFunding == [ startBalance |-> None, requests |-> 0, blocksMined |-> 0, tipAfter |-> None ]

Init ==
    /\ pc = "connect"
    /\ run = 1
    /\ \E st \in {"absent", "unloaded"} : wallets = [w \in WalletNames |-> st]
    /\ height = 0
    /\ debited = 0
    /\ pending = FALSE
    /\ txBlock = None
    /\ ensureLog = [w \in WalletNames |-> <<>>]
    /\ funding = NoFunding
    /\ locals = NoLocals
    /\ file = "absent"
    /\ fileAtStart = file

\* the `?` operator: the error reaches main's caller and the run ends
Fail ==
    /\ pc' = "failed"
    /\ UNCHANGED <<run, node, ensureLog, funding, locals, file, fileAtStart>>

\* a step that only moves on
Goto(next) ==
    /\ pc' = next
    /\ UNCHANGED <<run, node, ensureLog, funding, locals, file, fileAtStart>>

\* main.rs:77-84  Client::new, get_blockchain_info
Connect ==
    /\ pc = "connect"
    /\ \/ Goto("ensure_miner")
       \/ Fail

\* main.rs:15-40  the Result of create_or_load_wallet: load, and on any load
\* error create; a create error is returned as it is
create_or_load_wallet(w, up) ==
    IF LoadWalletOk(w, up) THEN "Ok"
    ELSE IF CreateWalletOk(w, up) THEN "Ok"
    ELSE IF up THEN "ErrAlreadyExists" ELSE "ErrRpc"

\* main.rs:90-91  create_or_load_wallet(&rpc, name)?
EnsureWallet(w, here, next) ==
    /\ pc = here
    /\ \E up \in BOOLEAN :
         LET res == create_or_load_wallet(w, up) IN
         /\ ensureLog' = [ensureLog EXCEPT ![w] = Append(@, res)]
         /\ wallets' = IF res = "Ok" THEN [wallets EXCEPT ![w] = "loaded"] ELSE wallets
         /\ pc' = IF res = "Ok" THEN next ELSE "failed"
         /\ UNCHANGED <<run, height, debited, pending, txBlock, funding, locals,
                        file, fileAtStart>>

EnsureMiner == EnsureWallet(MINER, "ensure_miner", "ensure_trader")

EnsureTrader == EnsureWallet(TRADER, "ensure_trader", "mining_address")

\* generatetoaddress(n, addr) on the node: n blocks on top of the tip; a block
\* may or may not take the payment waiting in the mempool
Generate(n, takes) ==
    /\ height' = height + n
    /\ pending' = (pending /\ ~takes)
    /\ txBlock' = IF pending /\ takes THEN Some(height + 1) ELSE txBlock

\* main.rs:94-101  get_wallet_client twice, miner_client.get_new_address
MiningAddress ==
    /\ pc = "mining_address"
    /\ \/ Goto("fund")
       \/ Fail

\* main.rs:102-103  rpc.generate_to_address(101, &mining_address_checked)?
Fund ==
    /\ pc = "fund"
    /\ \/ /\ \E takes \in BOOLEAN : Generate(FUNDING_BLOCKS, takes)
          /\ funding' = [ startBalance |-> Some(MinerBalance(height, debited)),
                          requests |-> funding.requests + 1,
                          blocksMined |-> funding.blocksMined + FUNDING_BLOCKS,
                          tipAfter |-> Some(height + FUNDING_BLOCKS) ]
          /\ pc' = "check_balance"
          /\ UNCHANGED <<run, wallets, debited, ensureLog, locals, file, fileAtStart>>
       \/ Fail

\* main.rs:105-107  miner_client.get_balance(None, None)?
CheckBalance ==
    /\ pc = "check_balance"
    /\ \/ /\ locals' = [locals EXCEPT !.miner_balance = Some(MinerBalance(height, debited))]
          /\ pc' = "trader_address"
          /\ UNCHANGED <<run, node, ensureLog, funding, file, fileAtStart>>
       \/ Fail

\* main.rs:109-112  trader_client.get_new_address(Some("Received"), None)?
TraderAddress ==
    /\ pc = "trader_address"
    /\ \/ Goto("send")
       \/ Fail

\* the fee the node's wallet pays for the payment
TxFee == COIN \div 100

\* the node's answers to the `send` call: an error, or {complete, txid}
SendResults ==
    { [complete |-> c, txid |-> t] : c \in BOOLEAN, t \in {TXID, BAD_TXID} }

\* variant for the sensitivity of C7: no assertion on the answer
assert_always(send_result) == TRUE

\* main.rs:71  assert!(send_result.complete)
assert_complete(send_result) == send_result.complete

\* main.rs:52-73, 116-117  send_bitcoin(&miner_client, &trader_address, 20.0)?
SendBitcoin ==
    /\ pc = "send"
    /\ \/ \E send_result \in SendResults :
            \* the node sends only what the wallet can pay
            /\ send_result.complete => MinerBalance(height, debited) >= Payment + TxFee
            /\ debited' = IF send_result.complete THEN debited + Payment + TxFee ELSE debited
            /\ pending' = (pending \/ send_result.complete)
            /\ txBlock' = None
            /\ IF assert_complete(send_result)
               THEN /\ locals' = [locals EXCEPT !.send_result = Some(send_result),
                                                !.txid_str = Some(send_result.txid)]
                    /\ pc' = "parse_txid"
               ELSE /\ locals' = [locals EXCEPT !.send_result = Some(send_result)]
                    /\ pc' = "panicked"
            /\ UNCHANGED <<run, wallets, height, ensureLog, funding, file, fileAtStart>>
       \/ Fail

\* main.rs:119-125  Txid::from_str(&txid_str).map_err(..)?
ParseTxid ==
    /\ pc = "parse_txid"
    /\ \/ /\ locals.txid_str = Some(TXID)
          /\ Goto("mempool")
       \/ /\ locals.txid_str # Some(TXID)
          /\ Fail

\* main.rs:127-134  getmempoolentry, get_mempool_info
Mempool ==
    /\ pc = "mempool"
    /\ \/ /\ pending
          /\ Goto("confirm")
       \/ Fail

\* main.rs:136-139  rpc.generate_to_address(1, &mining_address_checked)?
Confirm ==
    /\ pc = "confirm"
    /\ \/ /\ \E takes \in BOOLEAN : Generate(CONFIRM_BLOCKS, takes)
          /\ pc' = "get_transaction"
          /\ UNCHANGED <<run, wallets, debited, ensureLog, funding, locals, file, fileAtStart>>
       \/ Fail

\* the fee field of the wallet's view of a transaction: absent, or signed
FeeReports == {None, Some(-TxFee), Some(TxFee)}

\* variant for the sensitivity of C3: the block hash is not required
expect_anything(blockhash) == TRUE

\* main.rs:146-149  .blockhash.expect("Transaction should be in a block")
expect_some(blockhash) == blockhash # None

\* main.rs:141-149  miner_client.get_transaction(&txid, None)?, block_hash
GetTransaction ==
    /\ pc = "get_transaction"
    /\ \/ \E fee \in FeeReports :
            LET transaction ==
                  [ blockhash |-> IF txBlock = None THEN None
                                  ELSE Some(BlockHash(txBlock[1])),
                    fee |-> fee ]
            IN
            /\ IF expect_some(transaction.blockhash)
               THEN /\ locals' = [locals EXCEPT !.transaction = Some(transaction),
                                                !.block_hash = transaction.blockhash]
                    /\ pc' = "get_block"
               ELSE /\ locals' = [locals EXCEPT !.transaction = Some(transaction)]
                    /\ pc' = "panicked"
            /\ UNCHANGED <<run, node, ensureLog, funding, file, fileAtStart>>
       \/ Fail

\* main.rs:150-151  rpc.get_block(&block_hash)?, get_block_header_info(..)?.height
GetBlock ==
    /\ pc = "get_block"
    /\ \/ /\ locals.block_hash # None
          /\ locals' = [locals EXCEPT !.block_height = Some(HeightOf(locals.block_hash[1]))]
          /\ pc' = "decode"
          /\ UNCHANGED <<run, node, ensureLog, funding, file, fileAtStart>>
       \/ Fail

\* the outputs of a prior transaction of the node: the coinbase reward, then
\* an output with no address and no value
PrevVout(prev_txid) ==
    << [address |-> MINING_ADDR, value |-> Reward], [address |-> NONE, value |-> 0] >>

\* the inputs of the payment: references to outputs of prior transactions
FirstInputs ==
    { [txid |-> PREV_COINBASE, vout |-> Some(0)],
      [txid |-> PREV_COINBASE, vout |-> Some(1)],
      [txid |-> PREV_MISSING, vout |-> Some(0)],
      [txid |-> PREV_GARBLED, vout |-> Some(0)] }

SecondInput == [txid |-> PREV_OTHER, vout |-> Some(0)]

VinLists == { <<i>> : i \in FirstInputs } \cup { <<i, SecondInput>> : i \in FirstInputs }

\* the amounts an output of the payment can carry
Values ==
    { Payment, Reward - Payment - TxFee, Reward - TxFee, 2 * Reward - Payment - TxFee }

Outputs ==
    [ address : {TRADER_ADDR, CHANGE_A, CHANGE_B}, value : Values ]
    \cup { [address |-> NONE, value |-> 0] }

VoutLists == UNION { [1..n -> Outputs] : n \in 1..MaxOuts }

\* the value an input brings in: that of the output it spends
InputValue(input) == PrevVout(input.txid)[input.vout[1] + 1].value

RECURSIVE SumIn(_)
SumIn(vin) == IF vin = <<>> THEN 0 ELSE InputValue(Head(vin)) + SumIn(Tail(vin))

RECURSIVE SumOut(_)
SumOut(vout) == IF vout = <<>> THEN 0 ELSE Head(vout).value + SumOut(Tail(vout))

\* the transactions the node makes for the payment: one output pays Payment
\* to the Trader address, and what the inputs bring in is what the outputs
\* carry plus the fee
DecodedTxs ==
    { tx \in [ vin : VinLists, vout : VoutLists ] :
        /\ \E i \in 1..Len(tx.vout) :
             tx.vout[i] = [address |-> TRADER_ADDR, value |-> Payment]
        /\ SumIn(tx.vin) = SumOut(tx.vout) + TxFee }

\* main.rs:153-155  rpc.get_raw_transaction(&txid, None)?, decode_raw_transaction(..)?
Decode ==
    /\ pc = "decode"
    /\ \/ \E decoded_tx \in DecodedTxs :
            /\ locals' = [locals EXCEPT !.decoded_tx = Some(decoded_tx)]
            /\ pc' = "final_balances"
            /\ UNCHANGED <<run, node, ensureLog, funding, file, fileAtStart>>
       \/ Fail

\* main.rs:157-167  get_balance of both wallets, printed
FinalBalances ==
    /\ pc = "final_balances"
    /\ \/ Goto("resolve_input")
       \/ Fail

\* the node's answer to get_raw_transaction(prev_txid)
PrevRawOk(prev_txid) == prev_txid \in {PREV_COINBASE, PREV_OTHER, PREV_GARBLED}

\* the node's answer to decode_raw_transaction(&prev_tx)
PrevDecodeOk(prev_txid) == prev_txid \in {PREV_COINBASE, PREV_OTHER}

\* main.rs:170-171  String::new(), 0.0
NoOutput == [address |-> EMPTY, amount |-> 0]

\* main.rs:174-188  the address and amount of the first input's previous output;
\* every failure on the way leaves the initial values
ResolveFirstInput(vin) ==
    IF vin = <<>> THEN NoOutput
    ELSE LET input == vin[1] IN
         IF input.txid = NONE \/ input.vout = None THEN NoOutput
         ELSE IF ~PrevRawOk(input.txid) THEN NoOutput
         ELSE IF ~PrevDecodeOk(input.txid) THEN NoOutput
         ELSE LET prev == PrevVout(input.txid)
                  i == input.vout[1] + 1
              IN IF i > Len(prev) THEN NoOutput
                 ELSE IF prev[i].address = NONE THEN NoOutput
                 ELSE [address |-> prev[i].address, amount |-> prev[i].value]

\* main.rs:169-188
ResolveInput ==
    /\ pc = "resolve_input"
    /\ locals' = [locals EXCEPT
                    !.miner_input = Some(ResolveFirstInput(locals.decoded_tx[1].vin))]
    /\ pc' = "classify"
    /\ UNCHANGED <<run, node, ensureLog, funding, file, fileAtStart>>

\* main.rs:191-194  the accumulators before the loop
NoOutputs == [trader_output |-> NoOutput, miner_change |-> NoOutput]

\* main.rs:198-208  the body of the loop, for one output
\* variant for the sensitivity of C9: the first output of a class is kept
ClassifyOne_first(acc, output) ==
    IF output.address = NONE THEN acc
    ELSE IF output.address = TRADER_ADDR
    THEN IF acc.trader_output # NoOutput THEN acc
         ELSE [acc EXCEPT !.trader_output = [address |-> output.address, amount |-> output.value]]
    ELSE IF acc.miner_change # NoOutput THEN acc
         ELSE [acc EXCEPT !.miner_change = [address |-> output.address, amount |-> output.value]]

ClassifyOne(acc, output) ==
    IF output.address = NONE THEN acc
    ELSE IF output.address = TRADER_ADDR
    THEN [acc EXCEPT !.trader_output = [address |-> output.address, amount |-> output.value]]
    ELSE [acc EXCEPT !.miner_change = [address |-> output.address, amount |-> output.value]]

RECURSIVE ClassifyFrom(_, _)
\* main.rs:197  for output in &decoded_tx.vout, from the accumulators acc
ClassifyFrom(acc, vout) ==
    IF vout = <<>> THEN acc
    ELSE ClassifyFrom(ClassifyOne(acc, Head(vout)), Tail(vout))

\* main.rs:190-209
ClassifyOutputs ==
    /\ pc = "classify"
    /\ LET acc == ClassifyFrom(NoOutputs, locals.decoded_tx[1].vout) IN
       locals' = [locals EXCEPT !.trader_output = Some(acc.trader_output),
                                !.miner_change = Some(acc.miner_change)]
    /\ pc' = "format"
    /\ UNCHANGED <<run, node, ensureLog, funding, file, fileAtStart>>

\* variant for the sensitivity of C8: the fee as reported, without abs()
fee_signed(transaction) ==
    IF transaction.fee = None THEN 0 ELSE transaction.fee[1]

\* main.rs:212  transaction.fee.map_or(0.0, |f| f.to_btc().abs())
fee_of(transaction) ==
    IF transaction.fee = None THEN 0 ELSE Abs(transaction.fee[1])

\* main.rs:215-227  the ten fields of output_data, in the order of the format string
OutputData(l) ==
    << l.txid_str[1],
       l.miner_input[1].address,
       l.miner_input[1].amount,
       l.trader_output[1].address,
       l.trader_output[1].amount,
       l.miner_change[1].address,
       l.miner_change[1].amount,
       -fee_of(l.transaction[1]),
       l.block_height[1],
       l.block_hash[1] >>

\* main.rs:211-227
Format ==
    /\ pc = "format"
    /\ locals' = [locals EXCEPT !.output_data = Some(OutputData(locals))]
    /\ pc' = "create_file"
    /\ UNCHANGED <<run, node, ensureLog, funding, file, fileAtStart>>

\* main.rs:230  File::create("out.txt")?  creates the file or truncates it
CreateFile ==
    /\ pc = "create_file"
    /\ \/ /\ file' = "empty"
          /\ pc' = "write_all"
          /\ UNCHANGED <<run, node, ensureLog, funding, locals, fileAtStart>>
       \/ Fail

\* main.rs:231  file.write_all(output_data.as_bytes())?  an error leaves what
\* was written before it
WriteAll ==
    /\ pc = "write_all"
    /\ \/ /\ file' = "written"
          /\ pc' = "finish"
          /\ UNCHANGED <<run, node, ensureLog, funding, locals, fileAtStart>>
       \/ /\ file' \in {"empty", "partial"}
          /\ pc' = "failed"
          /\ UNCHANGED <<run, node, ensureLog, funding, locals, fileAtStart>>

\* main.rs:232-249  the summary is printed and main returns Ok(())
Finish ==
    /\ pc = "finish"
    /\ Goto("done")

Ended == pc \in {"done", "failed", "panicked"}

\* what a restart of the node leaves of its wallets: none is loaded
Restarted(ws) == [w \in WalletNames |-> IF ws[w] = "loaded" THEN "unloaded" ELSE ws[w]]

\* the program is started again in the same directory, against the node with
\* the wallets ws
Start(ws) ==
    /\ Ended
    /\ run < MaxRuns
    /\ pc' = "connect"
    /\ run' = run + 1
    /\ locals' = NoLocals
    /\ funding' = NoFunding
    /\ txBlock' = None
    /\ file' = IF file = "written" THEN "stale" ELSE file
    /\ fileAtStart' = file'
    /\ wallets' = ws
    /\ UNCHANGED <<height, debited, pending, ensureLog>>

\* a second run against the node as the run before left it
Rerun == Start(wallets)

\* a second run after the node was restarted
RerunAfterRestart ==
    /\ \E w \in WalletNames : wallets[w] = "loaded"
    /\ Start(Restarted(wallets))

Next == Connect \/ EnsureMiner \/ EnsureTrader \/ MiningAddress \/ Fund \/ CheckBalance
        \/ TraderAddress \/ SendBitcoin \/ ParseTxid \/ Mempool \/ Confirm
        \/ GetTransaction \/ GetBlock \/ Decode \/ FinalBalances \/ ResolveInput
        \/ ClassifyOutputs \/ Format \/ CreateFile \/ WriteAll \/ Finish
        \/ Rerun \/ RerunAfterRestart

Spec == Init /\ [][Next]_vars

\* ------------------------------------------------------------------ claims

\* C1: when create_or_load_wallet is called twice in sequence for the same
\* wallet name against the same node and the first call succeeds, the second
\* call succeeds too (a create rejected because the wallet already exists
\* counts as success), and the wallet is loaded after each successful call.
C1_IdempotentProvisioning ==
    \A w \in WalletNames :
        /\ \A i \in 1..Len(ensureLog[w]) :
             (i > 1 /\ ensureLog[w][i - 1] = "Ok" /\ ensureLog[w][i] # "ErrRpc")
                => ensureLog[w][i] = "Ok"
        /\ (pc = "ensure_trader" /\ w = MINER) => wallets[w] = "loaded"
        /\ (pc = "mining_address" /\ w = TRADER) => wallets[w] = "loaded"

\* the record out.txt holds once the run has written it
Written == file = "written" /\ locals.output_data # None

\* C2: in every record the run writes, in base units,
\* input_amount = payment_amount + change_amount + fee magnitude.
C2_BalanceLaw ==
    Written =>
        LET d == locals.output_data[1] IN d[3] = d[5] + d[7] + Abs(d[8])

\* the wallet's view of the payment has no containing block
Unconfirmed == locals.transaction # None /\ locals.transaction[1].blockhash = None

\* C3: when the wallet's view of the transaction has no block hash, the run
\* stops there by a panic, out.txt is as it was when the run started, and no
\* block hash, block height or record exists.
C3_UnconfirmedFails ==
    Unconfirmed =>
        /\ pc = "panicked"
        /\ file = fileAtStart
        /\ locals.block_hash = None
        /\ locals.block_height = None
        /\ locals.output_data = None

C3_Witness == Unconfirmed /\ pc = "panicked" /\ run = 1 /\ height = FUNDING_BLOCKS + CONFIRM_BLOCKS

\* the first input's previous output cannot be resolved to an address
PrevOutUnresolvable(vin) ==
    /\ vin # <<>>
    /\ vin[1].txid # NONE
    /\ vin[1].vout # None
    /\ \/ vin[1].txid \in {PREV_MISSING, PREV_GARBLED}
       \/ vin[1].vout[1] >= Len(PrevVout(vin[1].txid))
       \/ PrevVout(vin[1].txid)[vin[1].vout[1] + 1].address = NONE

\* C4: when the first input's previous output cannot be resolved, the run
\* writes no record and ends as a failure.
C4_PrevOutFailureIsTerminal ==
    (locals.miner_input # None /\ PrevOutUnresolvable(locals.decoded_tx[1].vin))
        => /\ file # "written"
           /\ Ended => pc = "failed"

\* C5: out.txt changes only in the last step, a run that fails leaves it as
\* it was, and a failed write leaves no empty or partial file.
C5_NoPartialRecord ==
    /\ file # fileAtStart => pc \in {"write_all", "finish", "done"}
    /\ pc \in {"failed", "panicked"} => file = fileAtStart

\* C6: funding started from a zero Miner balance ends, with no RPC failure,
\* after exactly 101 mined blocks with a balance above zero.
C6_FundingTermination ==
    (locals.miner_balance # None /\ funding.startBalance = Some(0)) =>
        /\ locals.miner_balance[1] > 0
        /\ funding.blocksMined = COINBASE_MATURITY + 1

C6_Witness ==
    /\ pc = "trader_address"
    /\ funding.startBalance = Some(0)
    /\ locals.miner_balance = Some(Reward)

\* the node answered the send call with complete = false
Incomplete == locals.send_result # None /\ ~locals.send_result[1].complete

\* C7: after a send answered with complete = false the run has panicked:
\* no txid is returned, no block is mined after the funding blocks, no
\* transaction is queried and out.txt is as it was.
C7_IncompletePaymentFailsFast ==
    Incomplete =>
        /\ pc = "panicked"
        /\ locals.txid_str = None
        /\ Some(height) = funding.tipAfter
        /\ locals.transaction = None
        /\ locals.decoded_tx = None
        /\ locals.output_data = None
        /\ file = fileAtStart

C7_Witness == Incomplete /\ pc = "panicked" /\ locals.miner_balance = Some(Reward)

\* C8: the eighth field of a written record is minus the absolute value of
\* the fee the wallet reports (zero when it reports none), so never above
\* zero, and the ten fields are txid, input address and amount, payment
\* address and amount, change address and amount, fee, block height, block hash.
C8_FeeSignAndOrder ==
    Written =>
        LET d == locals.output_data[1]
            t == locals.transaction[1]
        IN /\ Len(d) = 10
           /\ d[8] <= 0
           /\ d[8] = IF t.fee = None THEN 0 ELSE -Abs(t.fee[1])
           /\ d[1] = locals.txid_str[1]
           /\ d[2] = locals.miner_input[1].address
           /\ d[3] = locals.miner_input[1].amount
           /\ d[4] = locals.trader_output[1].address
           /\ d[5] = locals.trader_output[1].amount
           /\ d[6] = locals.miner_change[1].address
           /\ d[7] = locals.miner_change[1].amount
           /\ d[9] = locals.block_height[1]
           /\ d[10] = locals.block_hash[1]

C8_Witness ==
    /\ Written
    /\ locals.transaction[1].fee = Some(-TxFee)
    /\ locals.output_data[1][8] = -TxFee

\* the last index of a non-empty set of indices
Last(S) == CHOOSE i \in S : \A j \in S : j <= i

====
